---- MODULE Spec2Model ----
(***************************************************************************)
(* A model of the key-path crate (src/src/lib.rs): the Item enum, the      *)
(* KeyPath struct with its accessors, operators and conversions, the       *)
(* KeyPathIter iterator and the path! macro.                               *)
(*                                                                         *)
(* Text is a sequence of one-character strings, so that rendering          *)
(* (Display) is computed character by character and can collide.           *)
(* Sequences are 1-based here and 0-based in the source: position i of the *)
(* source is element i + 1 of the model.                                   *)
(***************************************************************************)
EXTENDS Integers, Sequences, FiniteSets, TLC

VARIABLES p, q, op, arg, res, iters, owned

vars == <<p, q, op, arg, res, iters, owned>>

(***************************************************************************)
(* Bounds and input sets.                                                  *)
(***************************************************************************)
MaxLen == 3

MaxPairLen == 2

MaxCalls == MaxLen + 2

KeyTexts == { <<>>, <<"a">>, <<".">>, <<"5">> }

IndexValues == {0, 5, 10}

PairTexts == { <<>>, <<"a">>, <<"A">>, <<"5">>, <<"a", ".", "a">> }

PairIndexValues == {5}

IterIds == {"it1", "it2"}

Positions == 0 .. (MaxLen + 1)

Min(a, b) == IF a < b THEN a ELSE b

SeqsUpTo(S, n) == UNION { [1 .. k -> S] : k \in 0 .. n }

(***************************************************************************)
(* Option<T> and the outcome of an operator that may panic.                *)
(***************************************************************************)
None == [some |-> FALSE]

Some(x) == [some |-> TRUE, val |-> x]

Panic == [panic |-> TRUE]

Ok(x) == [panic |-> FALSE, val |-> x]

Nil == [nil |-> TRUE]

(***************************************************************************)
(* enum Item { Key(String), Index(usize) }                                 *)
(***************************************************************************)
Key(t) == [tag |-> "Key", text |-> t]

Index(n) == [tag |-> "Index", n |-> n]

Items == { Key(t) : t \in KeyTexts } \cup { Index(n) : n \in IndexValues }

PairItems == { Key(t) : t \in PairTexts } \cup { Index(n) : n \in PairIndexValues }

DigitChars == <<"0", "1", "2", "3", "4", "5", "6", "7", "8", "9">>

RECURSIVE UsizeToString(_)
UsizeToString(n) ==
    IF n < 10 THEN << DigitChars[n + 1] >>
    ELSE UsizeToString(n \div 10) \o << DigitChars[(n % 10) + 1] >>

RECURSIVE EscapeDots(_)
EscapeDots(t) ==
    IF Len(t) = 0 THEN << >>
    ELSE (IF t[1] = "." THEN << "\\", "." >> ELSE << t[1] >>) \o EscapeDots(Tail(t))

\* ItemToString escaping the periods of a key text
ItemToStringEscaped(i) ==
    IF i.tag = "Key" THEN EscapeDots(i.text) ELSE UsizeToString(i.n)

\* impl Display for Item
ItemToString(i) ==
    IF i.tag = "Key" THEN i.text ELSE UsizeToString(i.n)

ItemIsKey(i) == i.tag = "Key"

ItemIsIndex(i) == i.tag = "Index"

ItemAsKey(i) == IF i.tag = "Key" THEN Some(i.text) ELSE None

ItemAsIndex(i) == IF i.tag = "Index" THEN Some(i.n) ELSE None

\* ItemEq comparing what the two items render to
ItemEqByText(a, b) == ItemToString(a) = ItemToString(b)

\* #[derive(PartialEq)] on Item: same variant, then the fields
ItemEq(a, b) ==
    /\ a.tag = b.tag
    /\ IF a.tag = "Key" THEN a.text = b.text ELSE a.n = b.n

(***************************************************************************)
(* The values convertible to an Item: usize, &str, String, &String.        *)
(***************************************************************************)
Values ==
    [kind : {"usize"}, n : IndexValues]
        \cup [kind : {"str", "String", "StringRef"}, text : KeyTexts]

ItemFromUsize(n) == Index(n)

ItemFromStr(t) == Key(t)

ItemFromString(t) == Key(t)

ItemFromStringRef(t) == Key(t)

ItemFrom(v) ==
    CASE v.kind = "usize" -> ItemFromUsize(v.n)
      [] v.kind = "str" -> ItemFromStr(v.text)
      [] v.kind = "String" -> ItemFromString(v.text)
      [] v.kind = "StringRef" -> ItemFromStringRef(v.text)

(***************************************************************************)
(* struct KeyPath { items: Vec<Item> }                                     *)
(***************************************************************************)
KeyPathOf(s) == [items |-> s]

Paths == { KeyPathOf(s) : s \in SeqsUpTo(Items, MaxLen) }

PairPaths == { KeyPathOf(s) : s \in SeqsUpTo(PairItems, MaxPairLen) }

RECURSIVE Dedup(_)
Dedup(s) ==
    IF Len(s) = 0 THEN << >>
    ELSE LET front == Dedup(SubSeq(s, 1, Len(s) - 1))
         IN  IF \E i \in 1 .. (Len(s) - 1) : s[i] = s[Len(s)] THEN front
             ELSE Append(front, s[Len(s)])

\* KeyPathNew dropping repeated segments
KeyPathNewDedup(items) == [items |-> Dedup(items)]

KeyPathNew(items) == [items |-> items]

KeyPathDefault == [items |-> << >>]

\* <[Item]>::to_vec: a new vector holding a clone of each element in order
ToVec(s) == [i \in 1 .. Len(s) |-> s[i]]

KeyPathFromSlice(items) == [items |-> ToVec(items)]

KeyPathLen(kp) == Len(kp.items)

KeyPathIsEmpty(kp) == Len(kp.items) = 0

\* KeyPathGet indexing the vector directly
KeyPathGetUnchecked(kp, index) ==
    IF index < Len(kp.items) THEN Some(kp.items[index + 1]) ELSE Panic

KeyPathGet(kp, index) ==
    IF index < Len(kp.items) THEN Some(kp.items[index + 1]) ELSE None

KeyPathLast(kp) ==
    IF Len(kp.items) = 0 THEN None ELSE Some(kp.items[Len(kp.items)])

KeyPathAsRef(kp) == kp

\* impl Index<usize> for KeyPath: &self.items[index]
KeyPathIndex(kp, index) ==
    IF index < Len(kp.items) THEN Ok(kp.items[index + 1]) ELSE Panic

\* KeyPathIndexRange clamping the range to the path
KeyPathIndexRangeClamped(kp, start, end) ==
    LET e == Min(end, Len(kp.items))
    IN  IF start > e THEN Ok(<< >>) ELSE Ok(SubSeq(kp.items, start + 1, e))

\* impl Index<Range<usize>> for KeyPath: &self.items[start..end]
KeyPathIndexRange(kp, start, end) ==
    IF start > end \/ end > Len(kp.items) THEN Panic
    ELSE Ok(SubSeq(kp.items, start + 1, end))

\* Join writing the separator after every element, the last included
RECURSIVE JoinTrailing(_, _)
JoinTrailing(strs, sep) ==
    IF Len(strs) = 0 THEN << >>
    ELSE strs[1] \o sep \o JoinTrailing(Tail(strs), sep)

\* [String]::join(".")
RECURSIVE Join(_, _)
Join(strs, sep) ==
    IF Len(strs) = 0 THEN << >>
    ELSE IF Len(strs) = 1 THEN strs[1]
    ELSE strs[1] \o sep \o Join(Tail(strs), sep)

\* impl Display for KeyPath
KeyPathFmt(kp) ==
    Join([i \in 1 .. Len(kp.items) |-> ItemToString(kp.items[i])], << "." >>)

\* the blanket ToString of a Display type
KeyPathToString(kp) == KeyPathFmt(kp)

StringFromKeyPath(kp) == KeyPathToString(kp)

StringFromKeyPathRef(kp) == KeyPathToString(kp)

\* #[derive(PartialEq)] on KeyPath: Vec equality, lengths then elements
KeyPathEq(a, b) ==
    /\ Len(a.items) = Len(b.items)
    /\ \A i \in 1 .. Len(a.items) : ItemEq(a.items[i], b.items[i])

\* AddRef pushing onto the receiver's own vector instead of a clone
AddRefInPlace(kp, v) ==
    LET pushed == Append(kp.items, ItemFrom(v))
    IN  [self |-> [items |-> pushed], out |-> [items |-> pushed]]

\* impl Add<T> for &KeyPath: the receiver as it is left, and the output
AddRef(kp, v) ==
    LET items == ToVec(kp.items)
        pushed == Append(items, ItemFrom(v))
    IN  [self |-> kp, out |-> [items |-> pushed]]

\* impl Add<T> for KeyPath: (&self).add(rhs)
AddOwned(kp, v) == AddRef(kp, v).out

\* macro path!: the trailing-comma arm re-invokes the macro without it
RECURSIVE PathMacroPush(_, _)
PathMacroPush(items, exprs) ==
    IF Len(exprs) = 0 THEN items
    ELSE PathMacroPush(Append(items, ItemFrom(Head(exprs))), Tail(exprs))

PathMacroPlain(exprs) == KeyPathNew(PathMacroPush(<< >>, exprs))

\* the trailing-comma arm losing the expression before the comma
PathMacroTrailingDrops(exprs) ==
    PathMacroPlain(SubSeq(exprs, 1, Len(exprs) - 1))

PathMacroTrailing(exprs) == PathMacroPlain(exprs)

PathMacro(exprs, trailing) ==
    IF trailing THEN PathMacroTrailing(exprs) ELSE PathMacroPlain(exprs)

(***************************************************************************)
(* Spec: one operation applied to a path.  p is the receiver, op the       *)
(* operation applied, arg its argument and res its result.                 *)
(***************************************************************************)
NoIters == [k \in IterIds |-> [live |-> FALSE]]

NoOwned == [live |-> FALSE]

Init ==
    /\ p \in Paths
    /\ q = KeyPathDefault
    /\ op = "none"
    /\ arg = Nil
    /\ res = Nil
    /\ iters = NoIters
    /\ owned = NoOwned

Apply(name, a, r) ==
    /\ op = "none"
    /\ op' = name
    /\ arg' = a
    /\ res' = r
    /\ UNCHANGED <<q, iters, owned>>

\* constructors read no existing path: they start from the default one
DoNew ==
    /\ op = "none"
    /\ p = KeyPathDefault
    /\ \E s \in SeqsUpTo(Items, MaxLen) :
        /\ Apply("new", s, Nil)
        /\ p' = KeyPathNew(s)

DoFromSlice ==
    /\ op = "none"
    /\ p = KeyPathDefault
    /\ \E s \in SeqsUpTo(Items, MaxLen) :
        /\ Apply("from_slice", s, Nil)
        /\ p' = KeyPathFromSlice(s)

DoPathMacro ==
    /\ op = "none"
    /\ p = KeyPathDefault
    /\ \E exprs \in SeqsUpTo(Values, MaxLen), trailing \in BOOLEAN :
        /\ trailing => Len(exprs) > 0
        /\ Apply("path_macro", [exprs |-> exprs, trailing |-> trailing], Nil)
        /\ p' = PathMacro(exprs, trailing)

DoLen ==
    /\ Apply("len", Nil, [len |-> KeyPathLen(p), is_empty |-> KeyPathIsEmpty(p)])
    /\ UNCHANGED p

DoGet ==
    \E i \in Positions :
        /\ Apply("get", i, KeyPathGet(p, i))
        /\ UNCHANGED p

DoLast ==
    /\ Apply("last", Nil, KeyPathLast(p))
    /\ UNCHANGED p

DoIndex ==
    \E i \in Positions :
        /\ Apply("index", i, KeyPathIndex(p, i))
        /\ UNCHANGED p

DoIndexRange ==
    \E start \in Positions, end \in Positions :
        /\ Apply("index_range", [start |-> start, end |-> end],
                 KeyPathIndexRange(p, start, end))
        /\ UNCHANGED p

DoFmt ==
    /\ Apply("fmt", Nil, KeyPathFmt(p))
    /\ UNCHANGED p

DoToString ==
    /\ Apply("to_string", Nil, KeyPathToString(p))
    /\ UNCHANGED p

DoStringFrom ==
    /\ Apply("string_from", Nil, StringFromKeyPath(p))
    /\ UNCHANGED p

DoStringFromRef ==
    /\ Apply("string_from_ref", Nil, StringFromKeyPathRef(p))
    /\ UNCHANGED p

DoAddRef ==
    \E v \in Values :
        /\ Apply("add_ref", [recv |-> p, v |-> v], AddRef(p, v).out)
        /\ p' = AddRef(p, v).self

DoAddOwned ==
    \E v \in Values :
        /\ Apply("add_owned", [recv |-> p, v |-> v], AddOwned(p, v))
        /\ UNCHANGED p

Next ==
    \/ DoNew
    \/ DoFromSlice
    \/ DoPathMacro
    \/ DoLen
    \/ DoGet
    \/ DoLast
    \/ DoIndex
    \/ DoIndexRange
    \/ DoFmt
    \/ DoToString
    \/ DoStringFrom
    \/ DoStringFromRef
    \/ DoAddRef
    \/ DoAddOwned

Spec == Init /\ [][Next]_vars

(***************************************************************************)
(* Properties of Spec.                                                     *)
(***************************************************************************)
IsOption(r) == DOMAIN r = {"some"} \/ DOMAIN r = {"some", "val"}

IsOutcome(r) == DOMAIN r = {"panic"} \/ DOMAIN r = {"panic", "val"}

\* C1: p + v has p.len() + 1 segments, the first p.len() being p's in order
\* and the last being Item::from(v); &p + v leaves p unchanged, and p + v
\* (by value) gives the same result as &p + v.
AddAppendsOneSegment ==
    op \in {"add_ref", "add_owned"} =>
        /\ Len(res.items) = Len(arg.recv.items) + 1
        /\ \A i \in 1 .. Len(arg.recv.items) : res.items[i] = arg.recv.items[i]
        /\ res.items[Len(arg.recv.items) + 1] = ItemFrom(arg.v)
        /\ res.items[Len(res.items)].tag
               = (IF arg.v.kind = "usize" THEN "Index" ELSE "Key")
        /\ p = arg.recv

AddWitness ==
    /\ op = "add_ref"
    /\ Len(arg.recv.items) = 2
    /\ arg.v.kind = "StringRef"
    /\ res.items[3] = Key(<<"a">>)
    /\ p = arg.recv

\* C2: a path constructed from a sequence S (KeyPath::new or From<&[Item]>)
\* has len() = |S| and path[i] = S[i] for every i < |S|, nothing being
\* dropped, deduplicated or reordered; is_empty() holds exactly when |S| = 0.
ConstructionPreservesSegments ==
    op \in {"new", "from_slice"} =>
        /\ KeyPathLen(p) = Len(arg)
        /\ \A i \in 0 .. (Len(arg) - 1) : KeyPathIndex(p, i) = Ok(arg[i + 1])
        /\ KeyPathIsEmpty(p) <=> (Len(arg) = 0)

ConstructionWitness ==
    /\ op = "new"
    /\ Len(arg) = 3
    /\ arg[1] = arg[3]
    /\ arg[1] /= arg[2]
    /\ KeyPathLen(p) = 3

\* C3: get(i) never fails: it is the segment at position i when i < len()
\* and None when i >= len(); last() is the segment at position len() - 1 of
\* a non-empty path and None for the empty path.
GetAndLastAreTotal ==
    /\ op = "get" =>
        /\ IsOption(res)
        /\ res.some <=> (arg < Len(p.items))
        /\ res.some => res.val = p.items[arg + 1]
    /\ op = "last" =>
        /\ IsOption(res)
        /\ res.some <=> (Len(p.items) > 0)
        /\ res.some => res.val = p.items[Len(p.items)]

GetWitness ==
    /\ op = "get"
    /\ Len(p.items) = 2
    /\ arg = 2
    /\ res = None

\* C4: path[i] panics exactly when i >= len() and path[start..end] exactly
\* when not start <= end <= len(); otherwise path[i] is the segment at i and
\* path[start..end] the segments at start .. end - 1 in order (empty when
\* start = end): no clamping and no placeholder segment.
IndexPanicsExactlyOutOfBounds ==
    /\ op = "index" =>
        /\ IsOutcome(res)
        /\ res.panic <=> (arg >= Len(p.items))
        /\ ~res.panic => res.val = p.items[arg + 1]
    /\ op = "index_range" =>
        /\ IsOutcome(res)
        /\ res.panic <=> ~(arg.start <= arg.end /\ arg.end <= Len(p.items))
        /\ ~res.panic =>
            /\ Len(res.val) = arg.end - arg.start
            /\ \A k \in 1 .. (arg.end - arg.start) :
                   res.val[k] = p.items[arg.start + k]

IndexWitness ==
    /\ op = "index_range"
    /\ Len(p.items) = 2
    /\ arg.start = 2
    /\ arg.end = 2
    /\ res = Ok(<< >>)

\* C7: path![e1, ..., en] is a path of exactly n segments, the i-th being
\* Item::from(ei); the empty list gives a path equal to KeyPath::default(),
\* and a trailing comma changes nothing.
MacroBuildsListedSegments ==
    op = "path_macro" =>
        /\ Len(p.items) = Len(arg.exprs)
        /\ \A i \in 1 .. Len(arg.exprs) : p.items[i] = ItemFrom(arg.exprs[i])
        /\ Len(arg.exprs) = 0 => KeyPathEq(p, KeyPathDefault)

MacroWitness ==
    /\ op = "path_macro"
    /\ arg.trailing
    /\ Len(arg.exprs) = 3
    /\ arg.exprs[1].kind = "String"
    /\ arg.exprs[2].kind = "usize"
    /\ p.items[2] = Index(5)
    /\ Len(p.items) = 3

(***************************************************************************)
(* The dotted rendering, stated without Join: where each segment's text    *)
(* lies in the rendering and what stands between two of them.              *)
(***************************************************************************)
RenderOps == {"fmt", "to_string", "string_from", "string_from_ref"}

\* the number of decimal digits of n
DecWidth(n) == CHOOSE w \in 1 .. 20 : n < 10 ^ w /\ (w = 1 \/ n >= 10 ^ (w - 1))

DigitValue(c) == CHOOSE d \in 0 .. 9 : DigitChars[d + 1] = c

IsDigit(c) == \E d \in 0 .. 9 : DigitChars[d + 1] = c

RECURSIVE DigitsValue(_)
DigitsValue(t) ==
    IF Len(t) = 0 THEN 0
    ELSE 10 * DigitsValue(SubSeq(t, 1, Len(t) - 1)) + DigitValue(t[Len(t)])

SegWidth(i) == IF i.tag = "Key" THEN Len(i.text) ELSE DecWidth(i.n)

RECURSIVE SegOffset(_, _)
\* the position in the rendering of the first character of segment k
SegOffset(items, k) ==
    IF k = 1 THEN 1 ELSE SegOffset(items, k - 1) + SegWidth(items[k - 1]) + 1

\* t is the rendered text of segment i
IsSegText(i, t) ==
    IF i.tag = "Key" THEN t = i.text
    ELSE /\ Len(t) >= 1
         /\ \A k \in 1 .. Len(t) : IsDigit(t[k])
         /\ DigitsValue(t) = i.n
         /\ Len(t) > 1 => t[1] /= "0"

CountDots(t) == Cardinality({ k \in 1 .. Len(t) : t[k] = "." })

RECURSIVE KeyDots(_)
KeyDots(items) ==
    IF Len(items) = 0 THEN 0
    ELSE (IF items[1].tag = "Key" THEN CountDots(items[1].text) ELSE 0)
             + KeyDots(Tail(items))

\* C5: every rendering of p (Display, to_string, String::from(p),
\* String::from(&p)) is the text of each segment in stored order, a Key as its
\* literal text and an Index as its decimal digits without sign or leading
\* zeros, with exactly one '.' between consecutive segments and none before
\* the first or after the last: n >= 1 segments give n - 1 separators beyond
\* the periods of the key texts, and the empty path renders as "".
RenderingIsDottedSegments ==
    op \in RenderOps =>
        LET items == p.items
            n == Len(items)
        IN  /\ n = 0 => res = << >>
            /\ n >= 1 =>
                /\ Len(res) = SegOffset(items, n) + SegWidth(items[n]) - 1
                /\ \A k \in 1 .. n :
                       IsSegText(items[k],
                                 SubSeq(res, SegOffset(items, k),
                                        SegOffset(items, k) + SegWidth(items[k]) - 1))
                /\ \A k \in 2 .. n : res[SegOffset(items, k) - 1] = "."
                /\ CountDots(res) = (n - 1) + KeyDots(items)

RenderingWitness ==
    /\ op = "to_string"
    /\ p.items = << Key(<<".">>), Index(10), Key(<< >>) >>
    /\ res = << ".", ".", "1", "0", "." >>

(***************************************************************************)
(* SpecPair: two paths, compared with == or both rendered.                 *)
(***************************************************************************)
InitPair ==
    /\ p \in PairPaths
    /\ q \in PairPaths
    /\ op = "none"
    /\ arg = Nil
    /\ res = Nil
    /\ iters = NoIters
    /\ owned = NoOwned

DoEq ==
    /\ Apply("eq", Nil, KeyPathEq(p, q))
    /\ UNCHANGED p

DoRenderBoth ==
    /\ Apply("render_both", Nil, << KeyPathToString(p), KeyPathToString(q) >>)
    /\ UNCHANGED p

NextPair ==
    \/ DoEq
    \/ DoRenderBoth

SpecPair == InitPair /\ [][NextPair]_vars

\* C6: p == q iff p.len() == q.len() and p[i] == q[i] for every i < p.len(),
\* two segments being equal iff they are the same variant with the same
\* value: a Key never equals an Index, key text is compared as it is (no case
\* folding), and the same segments in another order make an unequal path.
EqualityIsElementwise ==
    op = "eq" =>
        /\ res <=> /\ Len(p.items) = Len(q.items)
                   /\ \A i \in 1 .. Len(p.items) : p.items[i] = q.items[i]
        /\ (\E i \in 1 .. Min(Len(p.items), Len(q.items)) :
                p.items[i].tag /= q.items[i].tag) => ~res
        /\ (/\ Len(p.items) = 2
            /\ q.items = << p.items[2], p.items[1] >>
            /\ p.items[1] /= p.items[2]) => ~res

EqualityWitness ==
    /\ op = "eq"
    /\ p.items = << Key(<<"5">>), Key(<<"a">>) >>
    /\ q.items = << Index(5), Key(<<"A">>) >>
    /\ res = FALSE

\* C9: the rendering escapes no period of a key text, quotes nothing and marks
\* no variant, so it is not reversible: [Key("a.a")] and [Key("a"), Key("a")],
\* [Key("5")] and [Index(5)], the empty path and [Key("")] are unequal paths
\* with equal renderings; equal paths always render equally.
RenderingIsNotInjective ==
    op = "render_both" =>
        /\ KeyPathEq(p, q) => res[1] = res[2]
        /\ (Len(p.items) = 1 /\ p.items[1].tag = "Key") => res[1] = p.items[1].text
        /\ (/\ p.items = << Key(<<"a", ".", "a">>) >>
            /\ q.items = << Key(<<"a">>), Key(<<"a">>) >>)
               => (res[1] = res[2] /\ ~KeyPathEq(p, q))
        /\ (p.items = << Key(<<"5">>) >> /\ q.items = << Index(5) >>)
               => (res[1] = res[2] /\ ~KeyPathEq(p, q))
        /\ (p.items = << >> /\ q.items = << Key(<< >>) >>)
               => (res[1] = res[2] /\ ~KeyPathEq(p, q))

NotInjectiveWitness ==
    /\ op = "render_both"
    /\ p.items = << Key(<<"a", ".", "a">>) >>
    /\ q.items = << Key(<<"a">>), Key(<<"a">>) >>
    /\ res[1] = << "a", ".", "a" >>
    /\ res[2] = << "a", ".", "a" >>
    /\ ~KeyPathEq(p, q)

(***************************************************************************)
(* SpecIter: iterators over a path.  Each KeyPathIter is its own value     *)
(* (key_path, index); out is the history of what next() has returned.      *)
(***************************************************************************)
\* KeyPath::iter
KeyPathIterOf(kp) == [key_path |-> kp, index |-> 0]

\* impl IntoIterator for &KeyPath
IntoIterRef(kp) == [key_path |-> kp, index |-> 0]

\* next() reading the position after the one it should
KeyPathIterNextSkipsFirst(it) ==
    [iter |-> [it EXCEPT !.index = @ + 1],
     result |-> KeyPathGet(it.key_path, it.index + 1)]

\* next() leaving the counter alone once the path is exhausted
KeyPathIterNextSaturating(it) ==
    LET result == KeyPathGet(it.key_path, it.index)
    IN  [iter |-> IF result.some THEN [it EXCEPT !.index = @ + 1] ELSE it,
         result |-> result]

\* impl Iterator for KeyPathIter: the iterator as next() leaves it, and
\* what next() returns
KeyPathIterNext(it) ==
    LET result == KeyPathGet(it.key_path, it.index)
    IN  [iter |-> [it EXCEPT !.index = @ + 1], result |-> result]

\* impl IntoIterator for KeyPath: self.items.into_iter()
IntoIterOwned(kp) == [buf |-> kp.items, pos |-> 0]

\* the vector's own consuming iterator
VecIntoIterNext(it) ==
    IF it.pos < Len(it.buf)
    THEN [iter |-> [it EXCEPT !.pos = @ + 1], result |-> Some(it.buf[it.pos + 1])]
    ELSE [iter |-> it, result |-> None]

InitIter ==
    /\ p \in Paths
    /\ q = KeyPathDefault
    /\ op = "none"
    /\ arg = Nil
    /\ res = Nil
    /\ iters = NoIters
    /\ owned = NoOwned

DoIter(k) ==
    /\ ~owned.live
    /\ iters' = [iters EXCEPT ![k] =
                     [live |-> TRUE, it |-> KeyPathIterOf(p), out |-> << >>]]
    /\ UNCHANGED <<p, q, op, arg, res, owned>>

DoIntoIterRef(k) ==
    /\ ~owned.live
    /\ iters' = [iters EXCEPT ![k] =
                     [live |-> TRUE, it |-> IntoIterRef(p), out |-> << >>]]
    /\ UNCHANGED <<p, q, op, arg, res, owned>>

DoIterNext(k) ==
    /\ iters[k].live
    /\ Len(iters[k].out) < MaxCalls
    /\ LET r == KeyPathIterNext(iters[k].it)
       IN  iters' = [iters EXCEPT ![k] =
                         [live |-> TRUE, it |-> r.iter,
                          out |-> Append(iters[k].out, r.result)]]
    /\ UNCHANGED <<p, q, op, arg, res, owned>>

\* moving the path ends every borrow of it
DoIntoIterOwned ==
    /\ ~owned.live
    /\ owned' = [live |-> TRUE, it |-> IntoIterOwned(p), out |-> << >>]
    /\ iters' = NoIters
    /\ UNCHANGED <<p, q, op, arg, res>>

DoOwnedNext ==
    /\ owned.live
    /\ Len(owned.out) < MaxCalls
    /\ LET r == VecIntoIterNext(owned.it)
       IN  owned' = [live |-> TRUE, it |-> r.iter,
                     out |-> Append(owned.out, r.result)]
    /\ UNCHANGED <<p, q, op, arg, res, iters>>

NextIter ==
    \/ \E k \in IterIds : DoIter(k)
    \/ \E k \in IterIds : DoIntoIterRef(k)
    \/ \E k \in IterIds : DoIterNext(k)
    \/ DoIntoIterOwned
    \/ DoOwnedNext

SpecIter == InitIter /\ [][NextIter]_vars

\* what the j-th call of next() on an iterator over items has to return
Expected(items, j) == IF j <= Len(items) THEN Some(items[j]) ELSE None

\* C8: an iterator over p (p.iter() or (&p).into_iter()) yields p's segments
\* in order, the i-th item being the segment at position i, and ends after
\* p.len() items; p is not changed; iterators over the same p are independent
\* and each starts at the first segment, so two of them yield the same
\* sequence; p.into_iter() yields the same segments in the same order.
IterationYieldsSegmentsInOrder ==
    /\ \A k \in IterIds : iters[k].live =>
        /\ iters[k].it.key_path = p
        /\ \A j \in 1 .. Len(iters[k].out) :
               iters[k].out[j] = Expected(p.items, j)
    /\ \A k1, k2 \in IterIds : (iters[k1].live /\ iters[k2].live) =>
           \A j \in 1 .. Min(Len(iters[k1].out), Len(iters[k2].out)) :
               iters[k1].out[j] = iters[k2].out[j]
    /\ owned.live =>
           \A j \in 1 .. Len(owned.out) : owned.out[j] = Expected(p.items, j)

IterationWitness ==
    /\ Len(p.items) = 3
    /\ p.items[1] /= p.items[2]
    /\ iters["it1"].live
    /\ iters["it2"].live
    /\ Len(iters["it1"].out) = 4
    /\ iters["it1"].out[3] = Some(p.items[3])
    /\ iters["it1"].out[4] = None
    /\ iters["it2"].out = << Some(p.items[1]) >>

====
